---- MODULE Spec2Model ----
(***************************************************************************)
(* Model of internal/generator/generator.go: the Run pipeline that fetches *)
(* deny/allow sources with retry, normalizes, reconciles against the       *)
(* secure list by eTLD+1, and writes four output artifacts.                *)
(*                                                                         *)
(* A Go string is a sequence of one-character strings, so that ToLower,    *)
(* TrimSpace, TrimPrefix, Split and sort.Strings are computed, not assumed.*)
(***************************************************************************)
EXTENDS Integers, Sequences, FiniteSets, TLC

\* ------------------------------------------------------------------ bounds
\* longest raw candidate string drawn in SpecNorm
MaxLen == 3
\* most raw candidates per direction drawn in SpecReconcile
MaxCand == 2
\* the read cap of fetch (10<<20 bytes in the code), scaled to the model's bodies
ReadCap == 7

\* --------------------------------------------------------- program constants
\* for i := 0; i < 3; i++
MaxAttempts == 3
\* time.Duration(i+1) * 500 * time.Millisecond
BackoffUnit == 500

\* ------------------------------------------------------------------ strings
\* the characters of the model in byte order (sort.Strings compares bytes)
AsciiOrder == <<"\n", " ", "#", "*", ".", "1", "2", "A", "G", "a", "c", "d", "g", "m", "n", "u">>

Ord(c) == CHOOSE i \in 1..Len(AsciiOrder) : AsciiOrder[i] = c

Range(s) == {s[i] : i \in 1..Len(s)}

RECURSIVE SeqsUpTo(_, _)
SeqsUpTo(S, n) ==
    IF n = 0 THEN {<<>>}
    ELSE LET shorter == SeqsUpTo(S, n - 1)
         IN shorter \cup {Append(s, x) : s \in {t \in shorter : Len(t) = n - 1}, x \in S}

RECURSIVE Flatten(_)
Flatten(ss) == IF ss = <<>> THEN <<>> ELSE Head(ss) \o Flatten(Tail(ss))

\* strings.ToLower on the model's characters
LowerChar(c) == IF c = "A" THEN "a" ELSE IF c = "G" THEN "g" ELSE c

ToLower(s) == [i \in 1..Len(s) |-> LowerChar(s[i])]

IsSpace(c) == c \in {" ", "\n"}

\* strings.TrimSpace: drop leading and trailing white space
TrimSpace(s) ==
    LET keep == {i \in 1..Len(s) : ~IsSpace(s[i])}
    IN IF keep = {} THEN <<>>
       ELSE LET lo == CHOOSE i \in keep : \A j \in keep : i <= j
                hi == CHOOSE i \in keep : \A j \in keep : i >= j
            IN SubSeq(s, lo, hi)

HasPrefix(s, p) == Len(s) >= Len(p) /\ SubSeq(s, 1, Len(p)) = p

HasSuffix(s, p) == Len(s) >= Len(p) /\ SubSeq(s, Len(s) - Len(p) + 1, Len(s)) = p

\* strings.TrimPrefix removes the prefix once, when present
TrimPrefix(s, p) == IF HasPrefix(s, p) THEN SubSeq(s, Len(p) + 1, Len(s)) ELSE s

TrimSuffix(s, p) == IF HasSuffix(s, p) THEN SubSeq(s, 1, Len(s) - Len(p)) ELSE s

\* byte-wise lexicographic order, as Go compares strings
StrLess(s, t) ==
    \E k \in 1..Len(t) :
        /\ k <= Len(s) + 1
        /\ \A j \in 1..(k - 1) : s[j] = t[j]
        /\ k = Len(s) + 1 \/ Ord(s[k]) < Ord(t[k])

\* strings.Split(s, sep) for a one-character separator
RECURSIVE SplitAcc(_, _, _)
SplitAcc(s, sep, cur) ==
    IF s = <<>> THEN <<cur>>
    ELSE IF Head(s) = sep THEN <<cur>> \o SplitAcc(Tail(s), sep, <<>>)
    ELSE SplitAcc(Tail(s), sep, Append(cur, Head(s)))

Split(s, sep) == SplitAcc(s, sep, <<>>)

\* ---------------------------------------------------------------- eTLD+1
\* stub of the public suffix list: n (a TLD) and c.u (a two-label suffix)
SuffixTable == {<<"n">>, <<"c", ".", "u">>}

Dot == <<".">>

LabelStarts(d) == {1} \cup {i + 1 : i \in {j \in 1..Len(d) : d[j] = "."}}

\* publicsuffix.PublicSuffix: the longest listed suffix, else the last label
PublicSuffix(d) ==
    LET listed == {i \in LabelStarts(d) : SubSeq(d, i, Len(d)) \in SuffixTable}
        start == IF listed # {}
                 THEN CHOOSE i \in listed : \A j \in listed : i <= j
                 ELSE CHOOSE i \in LabelStarts(d) : \A j \in LabelStarts(d) : i >= j
    IN SubSeq(d, start, Len(d))

HasEmptyLabel(d) ==
    \/ HasPrefix(d, Dot)
    \/ HasSuffix(d, Dot)
    \/ \E i \in 1..(Len(d) - 1) : d[i] = "." /\ d[i + 1] = "."

\* publicsuffix.EffectiveTLDPlusOne: [ok, val]
PublicSuffixPlusOne(d) ==
    IF HasEmptyLabel(d) THEN [ok |-> FALSE, val |-> <<>>]
    ELSE LET suffix == PublicSuffix(d)
             i == Len(d) - Len(suffix)
         IN IF Len(d) <= Len(suffix) THEN [ok |-> FALSE, val |-> <<>>]
            ELSE IF d[i] # "." THEN [ok |-> FALSE, val |-> <<>>]
            ELSE LET dots == {j \in 1..(i - 1) : d[j] = "."}
                     last == IF dots = {} THEN 0
                             ELSE CHOOSE j \in dots : \A k \in dots : j >= k
                 IN [ok |-> TRUE, val |-> SubSeq(d, last + 1, Len(d))]

effectiveTLDPlusOne(domain) ==
    LET d == TrimSuffix(domain, Dot)
    IN IF d = <<>> THEN [ok |-> FALSE, val |-> <<>>] ELSE PublicSuffixPlusOne(d)

\* the comparison key of removeSecureDomainsByETLD1: eTLD+1, else the string
Key(s) == LET r == effectiveTLDPlusOne(s) IN IF r.ok THEN r.val ELSE s

\* ------------------------------------------------------- list operations
\* the elements of s that are in keep, in order
SelectSeqBy(s, keep) == SelectSeq(s, LAMBDA x : x \in keep)

normalizeOne(s) == TrimSpace(ToLower(s))

normalizeAndFilter(in) ==
    SelectSeq([i \in 1..Len(in) |-> normalizeOne(in[i])],
              LAMBDA x : ~(x = <<>> \/ HasPrefix(x, <<"#">>)))

cleanOne(s) == TrimPrefix(TrimPrefix(s, <<"*", ".">>), Dot)

cleanDomains(in) == [i \in 1..Len(in) |-> cleanOne(in[i])]

\* variant: the secure filter compares the literal strings
removeSecureExact(d, s) == SelectSeqBy(d, Range(d) \ Range(s))

removeSecureDomainsByETLD1(d, s) ==
    LET sec == {Key(s[i]) : i \in 1..Len(s)}
    IN SelectSeqBy(d, {x \in Range(d) : Key(x) \notin sec})

\* sort.Strings on the keys of the map: the i-th string has i - 1 smaller ones
SortSet(S) ==
    [i \in 1..Cardinality(S) |->
        CHOOSE x \in S : Cardinality({y \in S : StrLess(y, x)}) = i - 1]

\* variant: deduplicated in arrival order, the sort left out
uniqueUnsorted(in) ==
    LET first == {i \in 1..Len(in) : in[i] # <<>> /\ \A j \in 1..(i - 1) : in[j] # in[i]}
    IN [k \in 1..Cardinality(first) |->
           in[CHOOSE i \in first : Cardinality({j \in first : j < i}) = k - 1]]

uniqueSorted(in) == SortSet(Range(in) \ {<<>>})

\* variant: the operands taken the other way round
differenceSwapped(a, b) == SelectSeqBy(b, Range(b) \ Range(a))

difference(a, b) == SelectSeqBy(a, Range(a) \ Range(b))

\* ------------------------------------------------------------ configuration
\* the source declarations of Config: URL lines, with comment and blank lines
TextDeny == << <<"#", "c">>, <<"d", "1">> >>

JSONDeny == << <<"d", "2">> >>

TextAllow == << <<"a", "1">> >>

JSONAllow == << <<" ">>, <<"a", "2">> >>

\* cfg.SecureLocal of the full run
SecureLocalCfg == << <<"G", ".", "n">> >>

\* the output paths, in the order writeOutputs writes them
OutPaths == <<"TextDenyOut", "JSONDenyOut", "TextAllowOut", "JSONAllowOut">>

\* --------------------------------------------------------- the environment
Tok(s) == [t |-> "str", v |-> s]

Open == [t |-> "open", v |-> <<>>]

Close == [t |-> "close", v |-> <<>>]

\* what the upstream servers may answer with a 2xx status: text bodies are
\* bytes, JSON bodies are tokens; the second deny-text body exceeds ReadCap
BigBody == <<"a", ".", "n", "\n">> \o [i \in 1..(ReadCap + 1) |-> IF i = 2 THEN "." ELSE "d"]

ServerBodies(u) ==
    IF u = <<"d", "1">> THEN {<<"m", ".", "g", ".", "n">>, BigBody}
    ELSE IF u = <<"d", "2">> THEN {<<Open, Tok(<<"*", ".", "c", ".", "n">>), Close>>, <<Open, Tok(<<"c", ".", "n">>)>>}
    ELSE IF u = <<"a", "1">> THEN {<<"c", ".", "n", "\n">>}
    ELSE {<<Open, Tok(<<"A", ".", "n">>), Close>>}

\* the statuses a server may answer
Statuses == {200, 299, 300, 500}

\* ------------------------------------------------------------------ errors
NilErr == [isNil |-> TRUE, parts |-> <<>>, werr |-> ""]

MkErr(parts) == [isNil |-> FALSE, parts |-> parts, werr |-> ""]

\* ------------------------------------------------------------------- state
VARIABLES
    pc,          \* position in Run
    ctxDone,     \* the overall deadline has fired
    loop,        \* obtainAllDomains: "text" or "json" loop
    idx,         \* obtainAllDomains: index of the next URL line
    out,         \* obtainAllDomains: out
    errs,        \* obtainAllDomains: errs
    fpc,         \* fetch: "idle", "request", "read", "wait"
    attempt,     \* fetch: i
    lastErr,     \* fetch: lastErr
    body,        \* fetch: the body the server offers for the open response
    attErrs,     \* history: the outcome of each client.Do of the current fetch
    waits,       \* history: backoff delays completed in the current fetch
    fres,        \* history: how the latest fetch returned
    fetched,     \* history: every fetch result, in order
    secureLocal, \* cfg.SecureLocal
    denyIn,      \* what obtainAllDomains returned for deny
    allowIn,     \* what obtainAllDomains returned for allow
    deny, allow, secure,
    derr, err,
    written,     \* outputs written so far: <<path, content>>
    ret          \* what Run returned

fetchVars == <<loop, idx, out, errs, fpc, attempt, lastErr, body, attErrs, waits, fres, fetched>>

listVars == <<secureLocal, denyIn, allowIn, deny, allow, secure>>

vars == <<pc, ctxDone, fetchVars, listVars, derr, err, written, ret>>

\* the errors of fetch: http %d, a transport error of client.Do, client.Do failing
\* on the expired context, ctx.Err(), a failed body read, a JSON decode error
NoErr == [kind |-> "nil", code |-> 0]

HttpErr(st) == [kind |-> "http", code |-> st]

TransportErr == [kind |-> "transport", code |-> 0]

DoCtxErr == [kind |-> "do: ctx", code |-> 0]

CtxErr == [kind |-> "ctx", code |-> 0]

ReadErr == [kind |-> "read", code |-> 0]

DecodeErr == [kind |-> "decode json", code |-> 0]

NoFetch == [url |-> <<>>, how |-> "none", ok |-> FALSE, err |-> NoErr, attErrs |-> <<>>,
            waits |-> <<>>, lastErr |-> NoErr, full |-> <<>>, bytes |-> <<>>,
            expired |-> FALSE]

NoRet == [returned |-> FALSE, denyCount |-> 0, allowCount |-> 0, err |-> NilErr]

InitControl ==
    /\ ctxDone = FALSE
    /\ loop = "text" /\ idx = 1 /\ out = <<>> /\ errs = <<>>
    /\ fpc = "idle" /\ attempt = 0 /\ lastErr = NoErr /\ body = <<>>
    /\ attErrs = <<>> /\ waits = <<>> /\ fres = NoFetch /\ fetched = <<>>
    /\ derr = NilErr /\ err = NilErr
    /\ written = <<>> /\ ret = NoRet

Init ==
    /\ InitControl
    /\ pc = "obtainDeny"
    /\ secureLocal = SecureLocalCfg
    /\ denyIn = <<>> /\ allowIn = <<>>
    /\ deny = <<>> /\ allow = <<>> /\ secure = <<>>

\* ------------------------------------------------------------------- fetch
Fetching == pc \in {"obtainDeny", "obtainAllow"}

URLs ==
    IF pc = "obtainDeny"
    THEN (IF loop = "text" THEN TextDeny ELSE JSONDeny)
    ELSE (IF loop = "text" THEN TextAllow ELSE JSONAllow)

\* strings.HasPrefix(u, "#") || strings.TrimSpace(u) == ""
Skipped(u) == HasPrefix(u, <<"#">>) \/ TrimSpace(u) = <<>>

\* io.LimitReader(resp.Body, 10<<20): at most ReadCap units, then EOF
LimitReader(b, n) == SubSeq(b, 1, IF Len(b) < n THEN Len(b) ELSE n)

\* json.Unmarshal(b, &arr) into []string
Unmarshal(b) ==
    IF /\ Len(b) >= 2
       /\ b[1] = Open
       /\ b[Len(b)] = Close
       /\ \A i \in 2..(Len(b) - 1) : b[i].t = "str"
    THEN [ok |-> TRUE, lines |-> [i \in 1..(Len(b) - 2) |-> b[i + 1].v]]
    ELSE [ok |-> FALSE, lines |-> <<>>]

\* fetchTextLines / fetchJSONStrings on what fetch returned without error
Decode(bytes) ==
    IF loop = "text" THEN [ok |-> TRUE, lines |-> Split(bytes, "\n")] ELSE Unmarshal(bytes)

\* the deadline fires (context.WithTimeout of main)
Expire ==
    /\ Fetching
    /\ ~ctxDone
    /\ ctxDone' = TRUE
    /\ UNCHANGED <<pc, fetchVars, listVars, derr, err, written, ret>>

\* obtainAllDomains: a comment or blank URL line is skipped
SkipURL ==
    /\ Fetching /\ fpc = "idle"
    /\ idx <= Len(URLs)
    /\ Skipped(URLs[idx])
    /\ idx' = idx + 1
    /\ UNCHANGED <<pc, ctxDone, loop, out, errs, fpc, attempt, lastErr, body, attErrs,
                   waits, fres, fetched, listVars, derr, err, written, ret>>

\* obtainAllDomains calls fetch for the next URL: i := 0, lastErr unset
StartFetch ==
    /\ Fetching /\ fpc = "idle"
    /\ idx <= Len(URLs)
    /\ ~Skipped(URLs[idx])
    /\ fpc' = "request"
    /\ attempt' = 0
    /\ lastErr' = NoErr
    /\ UNCHANGED <<pc, ctxDone, loop, idx, out, errs, body, attErrs, waits, fres,
                   fetched, listVars, derr, err, written, ret>>

\* fetch returns (bytes, e) by exit `how`; its caller decodes, and
\* obtainAllDomains appends the lines to out or the error to errs
FetchReturn(how, bytes, e, ws) ==
    LET u == URLs[idx]
        dec == IF e = NoErr THEN Decode(bytes) ELSE [ok |-> FALSE, lines |-> <<>>]
        e2 == IF e # NoErr THEN e ELSE IF dec.ok THEN NoErr ELSE DecodeErr
    IN /\ out' = IF e2 = NoErr THEN out \o dec.lines ELSE out
       /\ errs' = IF e2 = NoErr THEN errs ELSE Append(errs, [url |-> u, err |-> e2])
       /\ idx' = idx + 1
       /\ fpc' = "idle"
       /\ attempt' = 0 /\ lastErr' = NoErr /\ body' = <<>> /\ attErrs' = <<>> /\ waits' = <<>>
       /\ fres' = [url |-> u, how |-> how, ok |-> e = NoErr, err |-> e, attErrs |-> attErrs,
                   waits |-> ws, lastErr |-> lastErr, full |-> body, bytes |-> bytes,
                   expired |-> ctxDone]
       /\ fetched' = Append(fetched, [url |-> u, ok |-> e2 = NoErr,
                                      lines |-> IF e2 = NoErr THEN dec.lines ELSE <<>>])

\* variant: only the first failure is kept as lastErr
AttemptFailedKeepsFirst(e) ==
    /\ lastErr' = IF lastErr = NoErr THEN e ELSE lastErr
    /\ attErrs' = Append(attErrs, e)
    /\ fpc' = "wait"
    /\ body' = body

\* a failed attempt: lastErr is set and the select follows
AttemptFailed(e) ==
    /\ lastErr' = e
    /\ attErrs' = Append(attErrs, e)
    /\ fpc' = "wait"
    /\ body' = body

\* one attempt: client.Do(req) and the status test
Do ==
    /\ fpc = "request"
    /\ IF ctxDone
       THEN AttemptFailed(DoCtxErr)
       ELSE \/ AttemptFailed(TransportErr)
            \/ \E st \in Statuses :
                  IF st >= 200 /\ st < 300
                  THEN \E b \in ServerBodies(URLs[idx]) :
                          /\ body' = b
                          /\ fpc' = "read"
                          /\ lastErr' = lastErr
                          /\ attErrs' = Append(attErrs, NoErr)
                  ELSE AttemptFailed(HttpErr(st))
    /\ UNCHANGED <<pc, ctxDone, loop, idx, out, errs, attempt, waits, fres, fetched,
                   listVars, derr, err, written, ret>>

\* return io.ReadAll(io.LimitReader(resp.Body, 10<<20))
ReadBody ==
    /\ fpc = "read"
    /\ IF ctxDone
       THEN FetchReturn("read", <<>>, CtxErr, waits)
       ELSE \/ FetchReturn("read", <<>>, ReadErr, waits)
            \/ FetchReturn("read", LimitReader(body, ReadCap), NoErr, waits)
    /\ UNCHANGED <<pc, ctxDone, loop, listVars, derr, err, written, ret>>

\* variant: the select waits for the timer alone, the deadline is not watched
BackoffIgnoresCtx ==
    /\ fpc = "wait"
    /\ LET ws == Append(waits, (attempt + 1) * BackoffUnit)
       IN IF attempt + 1 < MaxAttempts
          THEN /\ attempt' = attempt + 1
               /\ waits' = ws
               /\ fpc' = "request"
               /\ UNCHANGED <<idx, out, errs, lastErr, body, attErrs, fres, fetched>>
          ELSE FetchReturn("exhausted", <<>>, lastErr, ws)
    /\ UNCHANGED <<pc, ctxDone, loop, listVars, derr, err, written, ret>>

\* the select after a failed attempt: the backoff timer or ctx.Done()
Backoff ==
    /\ fpc = "wait"
    /\ IF ctxDone
       THEN FetchReturn("cancel", <<>>, CtxErr, waits)
       ELSE LET ws == Append(waits, (attempt + 1) * BackoffUnit)
            IN IF attempt + 1 < MaxAttempts
               THEN /\ attempt' = attempt + 1
                    /\ waits' = ws
                    /\ fpc' = "request"
                    /\ UNCHANGED <<idx, out, errs, lastErr, body, attErrs, fres, fetched>>
               ELSE FetchReturn("exhausted", <<>>, lastErr, ws)
    /\ UNCHANGED <<pc, ctxDone, loop, listVars, derr, err, written, ret>>

\* obtainAllDomains: the text loop is over, the JSON loop starts
NextLoop ==
    /\ Fetching /\ fpc = "idle"
    /\ idx > Len(URLs)
    /\ loop = "text"
    /\ loop' = "json"
    /\ idx' = 1
    /\ UNCHANGED <<pc, ctxDone, out, errs, fpc, attempt, lastErr, body, attErrs, waits,
                   fres, fetched, listVars, derr, err, written, ret>>

\* obtainAllDomains returns (out, error of errs)
ObtainErr == IF Len(errs) > 0 THEN MkErr(errs) ELSE NilErr

\* variant: the allow direction's error is left out of the combined error
CombineErrDenyOnly(d, a) == IF ~d.isNil THEN MkErr(d.parts) ELSE NilErr

\* Run: the combined error of derr and aerr
CombineErr(d, a) ==
    IF ~d.isNil \/ ~a.isNil
    THEN MkErr((IF ~d.isNil THEN d.parts ELSE <<>>) \o (IF ~a.isNil THEN a.parts ELSE <<>>))
    ELSE NilErr

ObtainReturn ==
    /\ Fetching /\ fpc = "idle"
    /\ idx > Len(URLs)
    /\ loop = "json"
    /\ IF pc = "obtainDeny"
       THEN /\ deny' = out /\ denyIn' = out
            /\ derr' = ObtainErr
            /\ pc' = "obtainAllow"
            /\ UNCHANGED <<allow, allowIn, err>>
       ELSE /\ allow' = out /\ allowIn' = out
            /\ err' = CombineErr(derr, ObtainErr)
            /\ pc' = "normalize"
            /\ UNCHANGED <<deny, denyIn, derr>>
    /\ loop' = "text" /\ idx' = 1 /\ out' = <<>> /\ errs' = <<>>
    /\ UNCHANGED <<ctxDone, fpc, attempt, lastErr, body, attErrs, waits, fres, fetched,
                   secureLocal, secure, written, ret>>

\* --------------------------------------------------- normalize and reconcile
\* Run: deny, allow, secure = normalizeAndFilter(...)
Normalize ==
    /\ pc = "normalize"
    /\ deny' = normalizeAndFilter(deny)
    /\ allow' = normalizeAndFilter(allow)
    /\ secure' = normalizeAndFilter(secureLocal)
    /\ pc' = "clean"
    /\ UNCHANGED <<ctxDone, fetchVars, secureLocal, denyIn, allowIn, derr, err, written, ret>>

\* Run: deny, allow, secure = cleanDomains(...)
Clean ==
    /\ pc = "clean"
    /\ deny' = cleanDomains(deny)
    /\ allow' = cleanDomains(allow)
    /\ secure' = cleanDomains(secure)
    /\ pc' = "reconcile"
    /\ UNCHANGED <<ctxDone, fetchVars, secureLocal, denyIn, allowIn, derr, err, written, ret>>

\* Run: deny = removeSecureDomainsByETLD1(deny, secure);
\*      deny = difference(uniqueSorted(deny), uniqueSorted(allow))
reconcileDeny(d, a, s) ==
    difference(uniqueSorted(removeSecureDomainsByETLD1(d, s)), uniqueSorted(a))

\* variant: the secure list is not merged into allow
reconcileAllowNoSecure(a, s) == uniqueSorted(a)

\* Run: allow = uniqueSorted(append(allow, secure...))
reconcileAllow(a, s) == uniqueSorted(a \o s)

Reconcile ==
    /\ pc = "reconcile"
    /\ deny' = reconcileDeny(deny, allow, secure)
    /\ allow' = reconcileAllow(allow, secure)
    /\ pc' = "write"
    /\ UNCHANGED <<ctxDone, fetchVars, secureLocal, denyIn, allowIn, secure, derr, err,
                   written, ret>>

\* ------------------------------------------------------------------- write
\* strings.Join(lines, "\n")
RECURSIVE JoinLines(_)
JoinLines(lines) ==
    IF lines = <<>> THEN <<>>
    ELSE IF Len(lines) = 1 THEN lines[1]
    ELSE lines[1] \o <<"\n">> \o JoinLines(Tail(lines))

\* json.MarshalIndent(arr, "", "  ") as tokens
Marshal(arr) == <<Open>> \o [i \in 1..Len(arr) |-> Tok(arr[i])] \o <<Close>>

\* writeOutputs when the write number failAt fails (0: none fails): the
\* outputs written and the error returned
writeOutputs(d, a, failAt) ==
    LET contents == <<JoinLines(d), Marshal(d), JoinLines(a), Marshal(a)>>
        n == IF failAt = 0 THEN Len(OutPaths) ELSE failAt - 1
    IN [written |-> [i \in 1..n |-> [path |-> OutPaths[i], content |-> contents[i]]],
        werr |-> IF failAt = 0 THEN "" ELSE OutPaths[failAt]]

\* variant: a write error is returned alone, the fetch diagnostics dropped
runReturnWriteErrAlone(w, e, d, a) ==
    IF w.werr # ""
    THEN [returned |-> TRUE, denyCount |-> 0, allowCount |-> 0,
          err |-> [isNil |-> FALSE, parts |-> <<>>, werr |-> w.werr]]
    ELSE [returned |-> TRUE, denyCount |-> Len(d), allowCount |-> Len(a), err |-> e]

\* Run's return after writeOutputs answered w
runReturn(w, e, d, a) ==
    IF w.werr # ""
    THEN [returned |-> TRUE, denyCount |-> 0, allowCount |-> 0,
          err |-> [isNil |-> FALSE, parts |-> e.parts, werr |-> w.werr]]
    ELSE [returned |-> TRUE, denyCount |-> Len(d), allowCount |-> Len(a), err |-> e]

WriteAndReturn ==
    /\ pc = "write"
    /\ \E failAt \in 0..Len(OutPaths) :
          LET w == writeOutputs(deny, allow, failAt)
          IN /\ written' = w.written
             /\ ret' = runReturn(w, err, deny, allow)
    /\ pc' = "done"
    /\ UNCHANGED <<ctxDone, fetchVars, listVars, derr, err>>

\* ---------------------------------------------------------- specifications
Step ==
    \/ SkipURL
    \/ StartFetch
    \/ Do
    \/ ReadBody
    \/ Backoff
    \/ NextLoop
    \/ ObtainReturn
    \/ Normalize
    \/ Clean
    \/ Reconcile
    \/ WriteAndReturn

Next == Expire \/ Step

\* the whole of Run, from the call to the return
Spec == Init /\ [][Next]_vars

\* every step of Run ends in bounded time: a request and its body read by the
\* client timeout or the deadline, a wait by its timer or the deadline
FairSpec == Init /\ [][Next]_vars /\ WF_vars(Step)

\* the raw candidates drawn for the reconciliation
Pool == {<<"G", ".", "n">>, <<"m", ".", "g", ".", "n">>, <<"*", ".">>, <<"c", ".", "u">>}

\* the secure lists drawn for the reconciliation
SecureLists ==
    {<<>>, << <<"G", ".", "n">> >>, << <<"c", ".", "u">> >>, << <<"*", ".">> >>,
     << <<"m", ".", "g", ".", "n">>, <<"c", ".", "u">> >>}

\* Run from normalization on, for every fetched deny and allow list within
\* MaxCand and every secure list of SecureLists
InitReconcile ==
    /\ InitControl
    /\ pc = "normalize"
    /\ secureLocal \in SecureLists
    /\ denyIn \in SeqsUpTo(Pool, MaxCand)
    /\ allowIn \in SeqsUpTo(Pool, MaxCand)
    /\ deny = denyIn /\ allow = allowIn /\ secure = <<>>

NextReconcile == Normalize \/ Clean \/ Reconcile

SpecReconcile == InitReconcile /\ [][NextReconcile]_vars

\* the characters of the raw strings drawn for normalization
NormAlphabet == {" ", "#", "*", ".", "A", "a"}

\* Run from normalization on, for one raw candidate of either direction
InitNorm ==
    /\ InitControl
    /\ pc = "normalize"
    /\ secureLocal = <<>>
    /\ \E s \in SeqsUpTo(NormAlphabet, MaxLen) :
          \/ denyIn = <<s>> /\ allowIn = <<>>
          \/ denyIn = <<>> /\ allowIn = <<s>>
    /\ deny = denyIn /\ allow = allowIn /\ secure = <<>>

SpecNorm == InitNorm /\ [][NextReconcile]_vars

\* ------------------------------------------------------------------ claims
\* the lists Run hands to writeOutputs
Final == pc \in {"write", "done"}

\* normalizeAndFilter followed by cleanDomains, as Run applies them
Prepared(in) == cleanDomains(normalizeAndFilter(in))

FinalDeny(d, a, s) == reconcileDeny(Prepared(d), Prepared(a), Prepared(s))

FinalAllow(a, s) == reconcileAllow(Prepared(a), Prepared(s))

StrictlyAscending(l) == \A i \in 1..(Len(l) - 1) : StrLess(l[i], l[i + 1])

\* C1: the deny list and the allow list handed to writeOutputs share no string
C1_DenyAllowDisjoint == Final => Range(deny) \cap Range(allow) = {}

\* C1 witness: a final state where a deny candidate was also an allow candidate
\* and another deny candidate survived
C1_Witness ==
    /\ pc = "write"
    /\ Range(Prepared(denyIn)) \cap Range(Prepared(allowIn)) # {}
    /\ deny # <<>>

\* C2: no final deny entry has the comparison key (eTLD+1, else the string
\* itself) of a normalized secure entry
C2_NoSecureKeyInDeny ==
    Final => \A d \in Range(deny) : \A x \in Range(secure) : Key(d) # Key(x)

\* C2 witness: a deny candidate that differs from a secure entry as a string but
\* shares its key was removed, while another candidate stayed
C2_Witness ==
    /\ pc = "write"
    /\ \E d \in Range(Prepared(denyIn)) : \E x \in Range(secure) :
          d # x /\ Key(d) = Key(x) /\ d \notin Range(deny)
    /\ deny # <<>>

\* C3 as stated: the final allow list is exactly the union of the prepared allow
\* candidates and the prepared secure entries
C3_Original == Final => Range(allow) = Range(Prepared(allowIn)) \cup Range(secure)

\* C3 amended: the final allow list is exactly the non-empty strings of that
\* union, without duplicates, whatever the deny list holds
C3_AllowIsUnion ==
    Final =>
        /\ Range(allow) = (Range(Prepared(allowIn)) \cup Range(secure)) \ {<<>>}
        /\ Cardinality(Range(allow)) = Len(allow)

\* C3 witness: an allow candidate that is also a deny candidate stays in allow,
\* a secure entry is merged in, and one candidate is empty after the prefix strip
C3_Witness ==
    /\ pc = "write"
    /\ <<>> \in Range(Prepared(allowIn))
    /\ Range(Prepared(allowIn)) \cap Range(Prepared(denyIn)) \cap Range(allow) # {}
    /\ Range(secure) \ (Range(Prepared(allowIn)) \cup {<<>>}) # {}

\* C5: both final lists are strictly ascending, and any other arrival order or
\* multiplicity of the same candidate sets gives the same two lists
C5_SortedAndOrderFree ==
    Final =>
        /\ StrictlyAscending(deny)
        /\ StrictlyAscending(allow)
        /\ \A d2 \in SeqsUpTo(Range(denyIn), MaxCand) :
              Range(d2) = Range(denyIn) => FinalDeny(d2, allowIn, secureLocal) = deny
        /\ \A a2 \in SeqsUpTo(Range(allowIn), MaxCand) :
              Range(a2) = Range(allowIn) =>
                  /\ FinalDeny(denyIn, a2, secureLocal) = deny
                  /\ FinalAllow(a2, secureLocal) = allow

\* C5 witness: two deny candidates arrived in descending order and both stayed,
\* and the allow list is not empty
C5_Witness ==
    /\ pc = "write"
    /\ Len(denyIn) = 2
    /\ StrLess(normalizeOne(denyIn[2]), normalizeOne(denyIn[1]))
    /\ Len(deny) = 2
    /\ allow # <<>>

\* C4 as stated: after normalizeAndFilter and the prefix strip every kept
\* string is lowercase and starts neither with "*." nor with ".", and every
\* element of the final lists is moreover non-empty
C4_Original ==
    /\ pc \in {"reconcile", "write"} =>
          \A x \in Range(deny) \cup Range(allow) :
              /\ x = ToLower(x)
              /\ ~HasPrefix(x, <<"*", ".">>)
              /\ ~HasPrefix(x, Dot)
    /\ pc = "write" => \A x \in Range(deny) \cup Range(allow) : x # <<>>

\* the URL lines of a declaration that are fetched
Declared(urls) == SelectSeqBy(urls, {u \in Range(urls) : ~Skipped(u)})

DeclaredDeny == Declared(TextDeny) \o Declared(JSONDeny)

DeclaredAllow == Declared(TextAllow) \o Declared(JSONAllow)

\* the lines of the fetches lo..hi that succeeded, in order
LinesOf(lo, hi) == Flatten([i \in 1..(hi - lo + 1) |-> fetched[lo + i - 1].lines])

FailedFetches == {i \in 1..Len(fetched) : ~fetched[i].ok}

\* C6: whatever sources fail, every declared source is fetched, the lists are
\* built from exactly the lines of the sources that succeeded, all four outputs
\* are written, and Run returns the real counts with a diagnostic that is nil
\* exactly when no source failed and names every failed URL
C6_PartialFailure ==
    (pc = "done" /\ ret.err.werr = "") =>
        /\ [i \in 1..Len(fetched) |-> fetched[i].url] = DeclaredDeny \o DeclaredAllow
        /\ \A i \in FailedFetches : fetched[i].lines = <<>>
        /\ denyIn = LinesOf(1, Len(DeclaredDeny))
        /\ allowIn = LinesOf(Len(DeclaredDeny) + 1, Len(fetched))
        /\ deny = FinalDeny(denyIn, allowIn, secureLocal)
        /\ allow = FinalAllow(allowIn, secureLocal)
        /\ [i \in 1..Len(written) |-> written[i].path] = OutPaths
        /\ ret.returned
        /\ ret.denyCount = Len(deny)
        /\ ret.allowCount = Len(allow)
        /\ ret.err.isNil <=> FailedFetches = {}
        /\ \A i \in FailedFetches : \E j \in 1..Len(ret.err.parts) :
              ret.err.parts[j].url = fetched[i].url

\* C6 witness: a deny source and an allow source failed, the other two
\* succeeded, and Run returned non-zero counts
C6_Witness ==
    /\ pc = "done"
    /\ ret.err.werr = ""
    /\ \E i \in 1..Len(DeclaredDeny) : ~fetched[i].ok
    /\ \E i \in 1..Len(DeclaredDeny) : fetched[i].ok
    /\ \E i \in (Len(DeclaredDeny) + 1)..Len(fetched) : ~fetched[i].ok
    /\ \E i \in (Len(DeclaredDeny) + 1)..Len(fetched) : fetched[i].ok
    /\ ret.denyCount > 0
    /\ ret.allowCount > 0

\* C7: a failing write is fatal: Run returns (0, 0) and an error holding the
\* write error and the fetch diagnostics; the outputs are written in the order
\* of OutPaths, those before the failing one stay, those after it are not written
C7_WriteFailureFatal ==
    pc = "done" =>
        /\ \A i \in 1..Len(written) : written[i].path = OutPaths[i]
        /\ \A i \in 1..Len(written) :
              written[i].content =
                  <<JoinLines(deny), Marshal(deny), JoinLines(allow), Marshal(allow)>>[i]
        /\ ret.err.werr = "" => Len(written) = Len(OutPaths)
        /\ ret.err.werr # "" =>
              /\ ret.denyCount = 0
              /\ ret.allowCount = 0
              /\ ~ret.err.isNil
              /\ ret.err.parts = err.parts
              /\ Len(written) < Len(OutPaths)
              /\ ret.err.werr = OutPaths[Len(written) + 1]

\* C7 witness: the third write failed after fetch diagnostics had been collected
C7_Witness ==
    /\ pc = "done"
    /\ ret.err.werr = "TextAllowOut"
    /\ Len(written) = 2
    /\ err.parts # <<>>
    /\ deny # <<>>

\* what C8 and its amendment share: at most MaxAttempts attempts, none after a
\* 2xx answer, and the wait after failed attempt i is i times BackoffUnit
FetchAttemptsAndWaits ==
    /\ Len(attErrs) <= MaxAttempts
    /\ fpc = "request" => Len(attErrs) = attempt /\ Len(waits) = attempt
    /\ \A i \in 1..Len(waits) : waits[i] = i * BackoffUnit /\ attErrs[i] # NoErr
    /\ fres.how # "none" =>
          /\ Len(fres.attErrs) \in 1..MaxAttempts
          /\ \A i \in 1..Len(fres.waits) :
                fres.waits[i] = i * BackoffUnit /\ fres.attErrs[i] # NoErr
          /\ \A i \in 1..(Len(fres.attErrs) - 1) : fres.attErrs[i] # NoErr
          /\ fres.how = "read" =>
                /\ fres.attErrs[Len(fres.attErrs)] = NoErr
                /\ Len(fres.waits) = Len(fres.attErrs) - 1

AllAttemptsFailed ==
    /\ Len(fres.attErrs) = MaxAttempts
    /\ \A i \in 1..MaxAttempts : fres.attErrs[i] # NoErr

\* C8 as stated: ... and after MaxAttempts failed attempts fetch returns the
\* error of the last attempt (a last attempt that itself failed on the expired
\* context is left aside: its error and ctx.Err() name the same cause)
C8_Original ==
    /\ FetchAttemptsAndWaits
    /\ (AllAttemptsFailed /\ fres.attErrs[MaxAttempts] # DoCtxErr) =>
          fres.err = fres.attErrs[MaxAttempts]

\* C8 amended: ... and after MaxAttempts failed attempts fetch waits once more
\* (MaxAttempts times BackoffUnit) and returns the error of the last attempt,
\* unless the deadline fires during that wait: then it returns ctx.Err()
C8_FetchRetries ==
    /\ FetchAttemptsAndWaits
    /\ AllAttemptsFailed =>
          \/ /\ fres.how = "exhausted"
             /\ ~fres.expired
             /\ Len(fres.waits) = MaxAttempts
             /\ fres.err = fres.attErrs[MaxAttempts]
          \/ /\ fres.how = "cancel"
             /\ fres.expired
             /\ Len(fres.waits) = MaxAttempts - 1
             /\ fres.err = CtxErr
    /\ fres.how = "exhausted" => AllAttemptsFailed

\* C8 witness: a fetch exhausted its attempts with different errors and
\* returned the third one
C8_Witness ==
    /\ fres.how = "exhausted"
    /\ fres.attErrs[1] # fres.attErrs[MaxAttempts]
    /\ fres.attErrs[2] # fres.attErrs[MaxAttempts]
    /\ fres.err = fres.attErrs[MaxAttempts]

IsPrefix(a, b) == Len(a) <= Len(b) /\ SubSeq(b, 1, Len(a)) = a

\* C9: once the deadline has fired, an attempt under way fails and the select
\* returns ctx.Err() without finishing the wait and without another attempt, a
\* body read under way returns the cancellation error, what was collected is
\* kept and handed to normalization, and Run reaches its return
C9_Cancellation ==
    /\ [][(ctxDone /\ fpc = "request") => (fpc' = "wait" /\ attempt' = attempt)]_vars
    /\ [][(ctxDone /\ fpc = "wait") =>
             /\ fpc' = "idle"
             /\ fres'.err = CtxErr
             /\ fres'.waits = waits
             /\ fres'.attErrs = attErrs]_vars
    /\ [][(ctxDone /\ fpc = "read") => (fpc' = "idle" /\ fres'.err = CtxErr)]_vars
    /\ [][(ctxDone /\ Fetching) =>
             \/ IsPrefix(out, out')
             \/ pc = "obtainDeny" /\ pc' = "obtainAllow" /\ deny' = out
             \/ pc = "obtainAllow" /\ pc' = "normalize" /\ allow' = out /\ deny' = deny]_vars
    /\ [][ctxDone => ctxDone']_vars
    /\ <>(pc = "done")

\* C9 witness: the deadline fired during the second fetch; the lines of the
\* first source reached the written deny list and Run returned
C9_Witness ==
    /\ pc = "done"
    /\ ctxDone
    /\ Len(fetched) = Len(DeclaredDeny) + Len(DeclaredAllow)
    /\ fetched[1].ok
    /\ \A i \in 2..Len(fetched) : ~fetched[i].ok
    /\ \A j \in 1..Len(err.parts) : err.parts[j].err = CtxErr
    /\ deny # <<>>
    /\ Len(written) = Len(OutPaths)

\* C10 as stated: a fetch that returns without error hands over the whole body
\* the server sent, and a 2xx answer whose body read fails before the deadline
\* is retried until the attempts are used up
C10_Original ==
    fres.how = "read" =>
        /\ fres.ok => fres.bytes = fres.full
        /\ (~fres.ok /\ ~fres.expired) => Len(fres.attErrs) = MaxAttempts

====
